---------------------------- MODULE Spec2Model ----------------------------
(***************************************************************************)
(* A model of saymyscope.py: load_file, matches_wildcard,                  *)
(* filter_subdomains, filter_urls, save_to_file and the part of main that  *)
(* chains them.                                                            *)
(*                                                                         *)
(* A string is a sequence of characters; a character is a one-token TLA+   *)
(* string ("a", ".", "*", ...).  A file is a sequence of bytes; an ASCII   *)
(* byte is written as the character it encodes, the other bytes are the    *)
(* tokens "xC3", "xA9", "xFF".  The characters outside ASCII are the       *)
(* tokens "U+00E9", "U+00C3", "U+00E3", "U+00A9", "U+00FF".                *)
(*                                                                         *)
(* Not modelled: '\r' line ends, glob ranges ("[a-z]"), the userinfo ('@'), *)
(* zone ('%') and IP literal of a network location, a missing input file   *)
(* and a failing write (both end the process with exit(1)).  No string of  *)
(* the input pools uses them.                                              *)
(***************************************************************************)
EXTENDS Integers, Sequences, FiniteSets, TLC

VARIABLES
    pc,                  \* where main is: "start", "filter", "done", "crashed"
    urls,                \* args.urls: TRUE in URL mode
    input_file,          \* bytes of the file named by -i
    outscope_file,       \* bytes of the file named by -os
    input_items,         \* main: input_items (the set the filter is applied to)
    out_of_scope,        \* main: out_of_scope
    todo,                \* items the filter's for loop has not visited yet
    in_scope,            \* filter_*: in_scope
    removed_domains,     \* filter_subdomains: removed_domains (a list of records)
    removed_domain_info, \* filter_urls: removed_domain_info (hostname -> record)
    output_file,         \* lines written by save_to_file
    run,                 \* 1: the run of main; 2: the filter applied again to its result
    first_in_scope,      \* the in_scope set the first application returned
    decode_failed        \* load_file(args.input) took the UnicodeDecodeError branch

vars == <<pc, urls, input_file, outscope_file, input_items, out_of_scope, todo,
          in_scope, removed_domains, removed_domain_info, output_file, run,
          first_in_scope, decode_failed>>

-----------------------------------------------------------------------------
(* Bounds of the model. *)

\* most items of an input set
MaxItems == 3
\* most entries of an out-of-scope set
MaxPatterns == 2
\* most lines of an input file whose lines are drawn one by one
MaxLines == 3
\* most bytes of an input file whose bytes are drawn one by one
MaxBytes == 5
\* bytes the text layer reads and decodes at a time (8192 in CPython)
ChunkSize == 4

-----------------------------------------------------------------------------
(* Characters and strings. *)

SetMin(S) == CHOOSE x \in S : \A y \in S : x <= y
SetMax(S) == CHOOSE x \in S : \A y \in S : x >= y

UpperCase ==
    <<"A", "B", "C", "D", "E", "F", "G", "H", "I", "J", "K", "L", "M",
      "N", "O", "P", "Q", "R", "S", "T", "U", "V", "W", "X", "Y", "Z">>
LowerCase ==
    <<"a", "b", "c", "d", "e", "f", "g", "h", "i", "j", "k", "l", "m",
      "n", "o", "p", "q", "r", "s", "t", "u", "v", "w", "x", "y", "z">>
Digits == <<"0", "1", "2", "3", "4", "5", "6", "7", "8", "9">>

\* the index of character c in the sequence cs
IndexIn(cs, c) == CHOOSE i \in 1..Len(cs) : cs[i] = c

\* c is one of the characters of the sequence cs
OneOf(cs, c) == \E i \in 1..Len(cs) : cs[i] = c

\* ord(c) for the characters of the model
Ord(c) ==
    IF OneOf(LowerCase, c) THEN 96 + IndexIn(LowerCase, c)
    ELSE IF OneOf(UpperCase, c) THEN 64 + IndexIn(UpperCase, c)
    ELSE IF OneOf(Digits, c) THEN 47 + IndexIn(Digits, c)
    ELSE CASE c = "\t" -> 9 [] c = "\n" -> 10 [] c = " " -> 32
           [] c = "!" -> 33 [] c = "#" -> 35 [] c = "*" -> 42
           [] c = "+" -> 43 [] c = "-" -> 45 [] c = "." -> 46
           [] c = "/" -> 47 [] c = ":" -> 58 [] c = "?" -> 63
           [] c = "[" -> 91 [] c = "]" -> 93
           [] c = "U+00A9" -> 169 [] c = "U+00C3" -> 195
           [] c = "U+00E3" -> 227 [] c = "U+00E9" -> 233
           [] c = "U+00FF" -> 255

\* str.lower() on one character
LowerChar(c) ==
    IF OneOf(UpperCase, c) THEN LowerCase[IndexIn(UpperCase, c)]
    ELSE IF c = "U+00C3" THEN "U+00E3"
    ELSE c

\* str.lower()
Lower(s) == [i \in 1..Len(s) |-> LowerChar(s[i])]

\* str.isspace() on one character
IsSpace(c) == c \in {" ", "\t", "\n"}

\* str.strip()
Strip(s) ==
    LET keep == {i \in 1..Len(s) : ~IsSpace(s[i])}
    IN  IF keep = {} THEN <<>> ELSE SubSeq(s, SetMin(keep), SetMax(keep))

\* c in s
Contains(s, c) == \E i \in 1..Len(s) : s[i] = c

\* s.startswith(prefix)
StartsWith(s, prefix) ==
    Len(s) >= Len(prefix) /\ SubSeq(s, 1, Len(prefix)) = prefix

\* s < t in Python's string order (by code point, a proper prefix first)
StrLess(s, t) ==
    \E k \in 1..Len(t) :
        /\ k <= Len(s) + 1
        /\ \A i \in 1..(k - 1) : s[i] = t[i]
        /\ IF k = Len(s) + 1 THEN TRUE ELSE Ord(s[k]) < Ord(t[k])

-----------------------------------------------------------------------------
(* load_file: the text layer's decoding and line splitting. *)

\* the stripped line as load_file adds it: nothing for a blank line
Stripped(line) == IF Strip(line) = <<>> THEN {} ELSE {Strip(line)}

\* Splits decoded characters at "\n", after the unfinished line `cur`:
\* the items of the finished lines, and the line still unfinished.
RECURSIVE SplitLines(_, _, _, _)
SplitLines(chars, i, cur, acc) ==
    IF i > Len(chars) THEN [items |-> acc, rest |-> cur]
    ELSE IF chars[i] = "\n"
         THEN SplitLines(chars, i + 1, <<>>, acc \cup Stripped(cur))
         ELSE SplitLines(chars, i + 1, Append(cur, chars[i]), acc)

\* bytes >= 0x80 of the model
IsLeadByte(b) == b = "xC3"
IsContinuationByte(b) == b = "xA9"
IsAsciiByte(b) == b \notin {"xC3", "xA9", "xFF"}

\* The strict UTF-8 incremental decoder on one chunk that is not the last
\* call: ok is FALSE where it raises UnicodeDecodeError; pending is a lead
\* byte cut off by the end of the chunk, kept for the next call.
RECURSIVE DecodeUtf8(_, _, _)
DecodeUtf8(bytes, i, acc) ==
    IF i > Len(bytes) THEN [ok |-> TRUE, chars |-> acc, pending |-> <<>>]
    ELSE IF IsAsciiByte(bytes[i])
         THEN DecodeUtf8(bytes, i + 1, Append(acc, bytes[i]))
    ELSE IF IsLeadByte(bytes[i])
         THEN IF i = Len(bytes)
              THEN [ok |-> TRUE, chars |-> acc, pending |-> <<bytes[i]>>]
              ELSE IF IsContinuationByte(bytes[i + 1])
                   THEN DecodeUtf8(bytes, i + 2, Append(acc, "U+00E9"))
                   ELSE [ok |-> FALSE, chars |-> acc, pending |-> <<>>]
    ELSE [ok |-> FALSE, chars |-> acc, pending |-> <<>>]

\* The latin-1 decoder: every byte is a character, it cannot raise.
DecodeLatin1(bytes) ==
    [i \in 1..Len(bytes) |->
        CASE bytes[i] = "xC3" -> "U+00C3"
          [] bytes[i] = "xA9" -> "U+00A9"
          [] bytes[i] = "xFF" -> "U+00FF"
          [] OTHER -> bytes[i]]

\* the last byte of the chunk that starts at pos
ChunkLast(bytes, pos) ==
    IF pos + ChunkSize - 1 < Len(bytes) THEN pos + ChunkSize - 1
    ELSE Len(bytes)

\* Lines 9-13: the loop over the file opened as UTF-8.  The text layer reads
\* and decodes ChunkSize bytes at a time, and the loop has added every line
\* that ends in the chunks decoded so far when a later chunk raises.  At the
\* end of the file a pending lead byte raises, before the last line is
\* returned.
RECURSIVE StrictPass(_, _, _, _, _)
RECURSIVE StrictChunk(_, _, _, _, _)
RECURSIVE StrictLines(_, _, _, _)
StrictPass(bytes, pos, pending, line, items) ==
    IF pos > Len(bytes)
    THEN IF pending # <<>>
         THEN [failed |-> TRUE, items |-> items]
         ELSE [failed |-> FALSE, items |-> items \cup Stripped(line)]
    ELSE StrictChunk(bytes, ChunkLast(bytes, pos),
                     DecodeUtf8(pending \o
                                SubSeq(bytes, pos, ChunkLast(bytes, pos)),
                                1, <<>>),
                     line, items)

StrictChunk(bytes, last, d, line, items) ==
    IF ~d.ok THEN [failed |-> TRUE, items |-> items]
    ELSE StrictLines(bytes, last, d.pending,
                     SplitLines(d.chars, 1, line, items))

StrictLines(bytes, last, pending, sp) ==
    StrictPass(bytes, last + 1, pending, sp.rest, sp.items)

\* the items of split lines, the unfinished last line among them
AllItems(sp) == sp.items \cup Stripped(sp.rest)

\* Lines 16-20: the loop over the file opened again as latin-1.
Latin1Pass(bytes) == AllItems(SplitLines(DecodeLatin1(bytes), 1, <<>>, {}))

\* load_file raises UnicodeDecodeError inside the try block
DecodeFails(bytes) == StrictPass(bytes, 1, <<>>, <<>>, {}).failed

\* lines 14-20: what the except branch makes of the items the try block
\* had added when it raised
Fallback(strict, bytes) ==
    IF strict.failed THEN strict.items \cup Latin1Pass(bytes)
    ELSE strict.items

\* load_file(filename), for a file that exists: items is created once, before
\* the try, and the except branch adds to it.
load_file(bytes) == Fallback(StrictPass(bytes, 1, <<>>, <<>>, {}), bytes)

-----------------------------------------------------------------------------
(* matches_wildcard and the glob matcher it calls. *)

\* fnmatch.translate on a "[": the index of the "]" that closes the class
\* opening at pat[j], or 0 when none does (the "[" is then a literal).
RECURSIVE ClassScan(_, _)
ClassScan(pat, k) ==
    IF k > Len(pat) THEN 0
    ELSE IF pat[k] = "]" THEN k ELSE ClassScan(pat, k + 1)

ClassEnd(pat, j) ==
    LET k1 == IF j + 1 <= Len(pat) /\ pat[j + 1] = "!" THEN j + 2 ELSE j + 1
        k2 == IF k1 <= Len(pat) /\ pat[k1] = "]" THEN k1 + 1 ELSE k1
    IN  ClassScan(pat, k2)

\* whether character c is in the class pat[j..e] ("[...]" or "[!...]")
ClassHas(pat, j, e, c) ==
    LET negated == pat[j + 1] = "!"
        from == IF negated THEN j + 2 ELSE j + 1
        member == \E k \in from..(e - 1) : pat[k] = c
    IN  IF negated THEN ~member ELSE member

\* whether name[i..] matches pat[j..]: "*" any run of characters, "?" any one
\* character, "[...]" one character of the class, anything else itself
RECURSIVE GlobFrom(_, _, _, _)
GlobFrom(name, i, pat, j) ==
    IF j > Len(pat) THEN i > Len(name)
    ELSE IF pat[j] = "*"
         THEN \E k \in i..(Len(name) + 1) : GlobFrom(name, k, pat, j + 1)
    ELSE IF i > Len(name) THEN FALSE
    ELSE IF pat[j] = "?" THEN GlobFrom(name, i + 1, pat, j + 1)
    ELSE IF pat[j] = "[" /\ ClassEnd(pat, j) # 0
         THEN /\ ClassHas(pat, j, ClassEnd(pat, j), name[i])
              /\ GlobFrom(name, i + 1, pat, ClassEnd(pat, j) + 1)
    ELSE name[i] = pat[j] /\ GlobFrom(name, i + 1, pat, j + 1)

\* A matcher that drops the leading "*." of the pattern and tests the rest
\* as a suffix of the name (name.endswith(pat.lstrip("*."))).
fnmatchSuffix(name, pat) ==
    LET from == SetMin({i \in 1..Len(pat) : pat[i] \notin {"*", "."}}
                       \cup {Len(pat) + 1})
        n == Len(pat) - from + 1
    IN  /\ Len(name) >= n
        /\ SubSeq(name, Len(name) - n + 1, Len(name)) =
               SubSeq(pat, from, Len(pat))

\* fnmatch.fnmatch(name, pat) where os.path.normcase is the identity (POSIX)
fnmatch(name, pat) == GlobFrom(name, 1, pat, 1)

\* matches_wildcard(item, wildcard_patterns): the patterns it can return.  It
\* returns the first match in the set's iteration order, which is any of the
\* matches; the empty set stands for None.
matches_wildcard(item, wildcard_patterns) ==
    {pattern \in wildcard_patterns : fnmatch(item, pattern)}

-----------------------------------------------------------------------------
(* The buckets of the out-of-scope set. *)

HttpPrefix == <<"h", "t", "t", "p", ":", "/", "/">>
HttpsPrefix == <<"h", "t", "t", "p", "s", ":", "/", "/">>

\* pattern.startswith(('http://', 'https://'))
IsUrlPattern(pattern) ==
    StartsWith(pattern, HttpPrefix) \/ StartsWith(pattern, HttpsPrefix)

\* filter_subdomains, lines 35-36
exact_matches(oos) == {domain \in oos : ~Contains(domain, "*")}
wildcard_patterns(oos) == {domain \in oos : Contains(domain, "*")}

\* filter_urls, lines 61-71
url_wildcards(oos) == {p \in oos : IsUrlPattern(p) /\ Contains(p, "*")}
url_exact(oos) == {p \in oos : IsUrlPattern(p) /\ ~Contains(p, "*")}
domain_wildcards(oos) == {p \in oos : ~IsUrlPattern(p) /\ Contains(p, "*")}
domain_exact(oos) == {p \in oos : ~IsUrlPattern(p) /\ ~Contains(p, "*")}

-----------------------------------------------------------------------------
(* urlparse(url).hostname *)

IsAlpha(c) == OneOf(UpperCase, c) \/ OneOf(LowerCase, c)
IsSchemeChar(c) == IsAlpha(c) \/ OneOf(Digits, c) \/ c \in {"+", "-", "."}

\* the index of the first character of s that is in cs, Len(s) + 1 if none
FirstOf(s, cs) ==
    SetMin({i \in 1..Len(s) : s[i] \in cs} \cup {Len(s) + 1})

\* the text of s before the first character that is in cs (all of s if none)
Before(s, cs) == SubSeq(s, 1, FirstOf(s, cs) - 1)

\* the text of s after the first character that is in cs (empty if none)
After(s, cs) == SubSeq(s, FirstOf(s, cs) + 1, Len(s))

\* urlsplit: whether the text before the first ":" is a scheme
IsScheme(scheme) ==
    /\ scheme # <<>>
    /\ IsAlpha(scheme[1])
    /\ \A k \in 1..Len(scheme) : IsSchemeChar(scheme[k])

\* urlsplit: the url after its scheme and ":", the whole url without one
AfterScheme(url) ==
    IF Contains(url, ":") /\ IsScheme(Before(url, {":"}))
    THEN After(url, {":"})
    ELSE url

\* urlsplit: the network location, the text between a leading "//" and the
\* next "/", "?" or "#"; empty when there is no leading "//"
NetlocOf(rest) ==
    IF StartsWith(rest, <<"/", "/">>)
    THEN Before(SubSeq(rest, 3, Len(rest)), {"/", "?", "#"})
    ELSE <<>>

Netloc(url) == NetlocOf(AfterScheme(url))

\* urlsplit raises ValueError: a bracket in the network location must be
\* one of a pair around an IP literal, and no string here holds an IP literal
BadBrackets(netloc) == Contains(netloc, "[") \/ Contains(netloc, "]")

UrlparseRaises(url) == BadBrackets(Netloc(url))

\* the host of a network location without brackets: the text before its
\* port, lower-cased; <<>> stands for None
HostOf(netloc) == Lower(Before(netloc, {":"}))

\* urlparse(url).hostname
Hostname(url) == HostOf(Netloc(url))

-----------------------------------------------------------------------------
(* save_to_file *)

\* min(items) in Python's string order
Least(items) == CHOOSE x \in items : \A y \in items \ {x} : StrLess(x, y)

\* sorted(items, reverse=True): descending
RECURSIVE sortedDescending(_)
sortedDescending(items) ==
    IF items = {} THEN <<>>
    ELSE Append(sortedDescending(items \ {Least(items)}), Least(items))

\* sorted(items): ascending in Python's string order
RECURSIVE sorted(_)
RECURSIVE SortedFrom(_, _)
sorted(items) ==
    IF items = {} THEN <<>> ELSE SortedFrom(Least(items), items)

SortedFrom(least, items) == <<least>> \o sorted(items \ {least})

-----------------------------------------------------------------------------
(* The decisions of the two filters on one item. *)

\* SubdomainRemovals with the two checks in the other order: the wildcard
\* patterns are tried before the exact-match bucket.
SubdomainRemovalsWildcardFirst(subdomain, oos) ==
    IF matches_wildcard(subdomain, wildcard_patterns(oos)) # {}
    THEN {<<"wildcard match", matched_pattern>> : matched_pattern \in
              matches_wildcard(subdomain, wildcard_patterns(oos))}
    ELSE IF subdomain \in exact_matches(oos)
    THEN {<<"exact match", subdomain>>}
    ELSE {}

\* filter_subdomains, lines 42-49, on one subdomain: the <<reason, pattern>>
\* pairs it can record, none when the subdomain is kept
SubdomainRemovals(subdomain, oos) ==
    IF subdomain \in exact_matches(oos)
    THEN {<<"exact match", subdomain>>}
    ELSE {<<"wildcard match", matched_pattern>> : matched_pattern \in
              matches_wildcard(subdomain, wildcard_patterns(oos))}

\* Removals with the domain checks (lines 97-107) before the full-URL checks
\* (lines 84-94).
RemovalsDomainFirst(full_url, domain, oos) ==
    IF domain \in domain_exact(oos)
    THEN {<<"exact domain match", domain>>}
    ELSE IF matches_wildcard(domain, domain_wildcards(oos)) # {}
    THEN {<<"wildcard domain match", p>> : p \in
              matches_wildcard(domain, domain_wildcards(oos))}
    ELSE IF full_url \in url_exact(oos)
    THEN {<<"exact URL match", full_url>>}
    ELSE {<<"wildcard URL match", p>> : p \in
              matches_wildcard(full_url, url_wildcards(oos))}

\* filter_urls, lines 84-107, for the lower-cased url and its hostname
Removals(full_url, domain, oos) ==
    IF full_url \in url_exact(oos)
    THEN {<<"exact URL match", full_url>>}
    ELSE IF matches_wildcard(full_url, url_wildcards(oos)) # {}
    THEN {<<"wildcard URL match", p>> : p \in
              matches_wildcard(full_url, url_wildcards(oos))}
    ELSE IF domain \in domain_exact(oos)
    THEN {<<"exact domain match", domain>>}
    ELSE {<<"wildcard domain match", p>> : p \in
              matches_wildcard(domain, domain_wildcards(oos))}

\* filter_urls, lines 83-109, on one url that has a hostname: the
\* <<reason, pattern>> pairs it can record, none when the url is kept
UrlRemovals(url, oos) == Removals(Lower(url), Hostname(url), oos)

\* CountRemoval without the test of line 85: every removal stores its own
\* reason and pattern.
CountRemovalLastWins(info, domain, reason, pattern) ==
    IF domain \in DOMAIN info
    THEN [info EXCEPT ![domain] = <<@[1] + 1, reason, pattern>>]
    ELSE info @@ (domain :> <<1, reason, pattern>>)

\* filter_urls, lines 85-87 (and 91-93, 98-100, 104-106): the record of a
\* hostname is created by its first removal and only counted up afterwards
CountRemoval(info, domain, reason, pattern) ==
    IF domain \in DOMAIN info
    THEN [info EXCEPT ![domain] = <<@[1] + 1, @[2], @[3]>>]
    ELSE info @@ (domain :> <<1, reason, pattern>>)

\* removed_domain_info = {}
NoInfo == [h \in {} |-> <<>>]

\* SubdomainBody without the continue of line 44: an exact match is
\* recorded and the wildcard check and line 49 still run.
SubdomainBodyNoContinue(subdomain, oos, scope, removed) ==
    IF subdomain \in exact_matches(oos)
    THEN IF matches_wildcard(subdomain, wildcard_patterns(oos)) = {}
         THEN {<<scope \cup {subdomain},
                 Append(removed, <<subdomain, "exact match", subdomain>>)>>}
         ELSE {<<scope,
                 Append(Append(removed,
                               <<subdomain, "exact match", subdomain>>),
                        <<subdomain, "wildcard match", p>>)>> :
                   p \in matches_wildcard(subdomain, wildcard_patterns(oos))}
    ELSE IF SubdomainRemovals(subdomain, oos) = {}
    THEN {<<scope \cup {subdomain}, removed>>}
    ELSE {<<scope, Append(removed, <<subdomain, r[1], r[2]>>)>> :
              r \in SubdomainRemovals(subdomain, oos)}

\* filter_subdomains, lines 42-49: the body of the loop on one subdomain,
\* as the <<in_scope, removed_domains>> pairs it can leave
SubdomainBody(subdomain, oos, scope, removed) ==
    IF SubdomainRemovals(subdomain, oos) = {}
    THEN {<<scope \cup {subdomain}, removed>>}
    ELSE {<<scope, Append(removed, <<subdomain, r[1], r[2]>>)>> :
              r \in SubdomainRemovals(subdomain, oos)}

\* UrlBody without the continue statements: a removed url is counted and
\* line 109 still adds it.
UrlBodyNoContinue(url, oos, scope, info) ==
    IF UrlRemovals(url, oos) = {}
    THEN {<<scope \cup {url}, info>>}
    ELSE {<<scope \cup {url}, CountRemoval(info, Hostname(url), r[1], r[2])>> :
              r \in UrlRemovals(url, oos)}

\* UrlBody with line 109 adding the hostname instead of the url.
UrlBodyKeepsDomain(url, oos, scope, info) ==
    IF UrlRemovals(url, oos) = {}
    THEN {<<scope \cup {Hostname(url)}, info>>}
    ELSE {<<scope, CountRemoval(info, Hostname(url), r[1], r[2])>> :
              r \in UrlRemovals(url, oos)}

\* filter_urls, lines 83-109: the body of the loop on one url that has a
\* hostname, as the <<in_scope, removed_domain_info>> pairs it can leave
UrlBody(url, oos, scope, info) ==
    IF UrlRemovals(url, oos) = {}
    THEN {<<scope \cup {url}, info>>}
    ELSE {<<scope, CountRemoval(info, Hostname(url), r[1], r[2])>> :
              r \in UrlRemovals(url, oos)}

\* main, line 180: sum(info[0] for info in removed_info.values())
RECURSIVE total_removed(_)
total_removed(info) ==
    IF DOMAIN info = {} THEN 0
    ELSE info[CHOOSE h \in DOMAIN info : TRUE][1] +
         total_removed([k \in DOMAIN info \ {CHOOSE h \in DOMAIN info : TRUE}
                           |-> info[k]])

-----------------------------------------------------------------------------
(* The strings the inputs are drawn from. *)

api_example_com ==
    <<"a", "p", "i", ".", "e", "x", "a", "m", "p", "l", "e", ".", "c", "o",
      "m">>
example_com == <<"e", "x", "a", "m", "p", "l", "e", ".", "c", "o", "m">>
notexample_com ==
    <<"n", "o", "t", "e", "x", "a", "m", "p", "l", "e", ".", "c", "o", "m">>
evil_com == <<"e", "v", "i", "l", ".", "c", "o", "m">>
star_example_com ==
    <<"*", ".", "e", "x", "a", "m", "p", "l", "e", ".", "c", "o", "m">>
star_com == <<"*", ".", "c", "o", "m">>
evil_co_q == <<"e", "v", "i", "l", ".", "c", "o", "?">>
class_star_e_com == <<"[", "e", "n", "]", "*", "e", ".", "c", "o", "m">>
url_a_x ==
    <<"h", "t", "t", "p", ":", "/", "/", "a", ".", "c", "o", "m", "/", "x">>
url_a_y ==
    <<"h", "t", "t", "p", ":", "/", "/", "a", ".", "c", "o", "m", "/", "y">>
url_A_X ==
    <<"h", "t", "t", "p", ":", "/", "/", "A", ".", "c", "o", "m", "/", "X">>
url_a_X ==
    <<"h", "t", "t", "p", ":", "/", "/", "a", ".", "c", "o", "m", "/", "X">>
url_b ==
    <<"h", "t", "t", "p", "s", ":", "/", "/", "b", ".", "c", "o", "m", "/">>
url_nohost == <<"a", ".", "c", "o", "m", "/", "x">>
url_badnetloc == <<"h", "t", "t", "p", ":", "/", "/", "[", "a", "/", "x">>
url_a_xstar ==
    <<"h", "t", "t", "p", ":", "/", "/", "a", ".", "c", "o", "m", "/", "x",
      "*">>
a_com == <<"a", ".", "c", "o", "m">>
url_b_star ==
    <<"h", "t", "t", "p", "s", ":", "/", "/", "b", ".", "c", "o", "m", "/",
      "*">>

\* items of an input file: host names, or URLs in URL mode
ItemPool(u) ==
    IF u THEN {url_a_x, url_a_y, url_A_X, url_b, url_nohost, url_badnetloc}
    ELSE {api_example_com, example_com, notexample_com, evil_com,
          star_example_com}

\* entries of an out-of-scope file
PatternPool(u) ==
    IF u THEN {url_a_x, url_a_X, url_a_xstar, url_b_star, a_com, star_com}
    ELSE {star_example_com, star_com, api_example_com, evil_co_q,
          class_star_e_com}

Bounded(P, n) == {S \in SUBSET P : Cardinality(S) <= n}

\* the bytes of a file of ASCII lines, each ended by "\n"
RECURSIVE FileOfLines(_)
FileOfLines(lines) ==
    IF lines = <<>> THEN <<>>
    ELSE Head(lines) \o <<"\n">> \o FileOfLines(Tail(lines))

-----------------------------------------------------------------------------
(* main *)

\* The state before main reads its files, for given file contents.
Start(u, infile, osfile) ==
    /\ pc = "start"
    /\ urls = u
    /\ input_file = infile
    /\ outscope_file = osfile
    /\ input_items = {}
    /\ out_of_scope = {}
    /\ todo = {}
    /\ in_scope = {}
    /\ removed_domains = <<>>
    /\ removed_domain_info = NoInfo
    /\ output_file = <<>>
    /\ run = 1
    /\ first_in_scope = {}
    /\ decode_failed = FALSE

\* Files that hold a set of items, one per line.
Init ==
    \E u \in BOOLEAN :
      \E S \in Bounded(ItemPool(u), MaxItems) :
        \E O \in Bounded(PatternPool(u), MaxPatterns) :
            Start(u, FileOfLines(sorted(S)), FileOfLines(sorted(O)))

\* main, lines 175-176, and the entry of the filter it calls (lines 38-39
\* or 73-74): both files are loaded and the loop over input_items begins.
LoadFiles ==
    /\ pc = "start"
    /\ input_items' = load_file(input_file)
    /\ out_of_scope' = load_file(outscope_file)
    /\ decode_failed' = DecodeFails(input_file)
    /\ todo' = load_file(input_file)
    /\ pc' = "filter"
    /\ UNCHANGED <<urls, input_file, outscope_file, in_scope, removed_domains,
                   removed_domain_info, output_file, run, first_in_scope>>

\* filter_subdomains, lines 41-49: one iteration of the loop, on any item
\* not visited yet (the iteration order of a set).
FilterSubdomainsStep ==
    /\ pc = "filter"
    /\ ~urls
    /\ \E subdomain \in todo :
         /\ todo' = todo \ {subdomain}
         /\ \E after \in SubdomainBody(subdomain, out_of_scope, in_scope,
                                       removed_domains) :
              /\ in_scope' = after[1]
              /\ removed_domains' = after[2]
    /\ UNCHANGED <<pc, urls, input_file, outscope_file, input_items,
                   out_of_scope, removed_domain_info, output_file, run,
                   first_in_scope, decode_failed>>

\* filter_urls, lines 76-109: one iteration of the loop.  A ValueError of
\* urlparse is caught nowhere and ends the process; a url without a
\* hostname is skipped.
FilterUrlsStep ==
    /\ pc = "filter"
    /\ urls
    /\ \E url \in todo :
         /\ todo' = todo \ {url}
         /\ IF UrlparseRaises(url)
            THEN /\ pc' = "crashed"
                 /\ UNCHANGED <<in_scope, removed_domain_info>>
            ELSE IF Hostname(url) = <<>>
            THEN UNCHANGED <<pc, in_scope, removed_domain_info>>
            ELSE /\ \E after \in UrlBody(url, out_of_scope, in_scope,
                                         removed_domain_info) :
                      /\ in_scope' = after[1]
                      /\ removed_domain_info' = after[2]
                 /\ pc' = pc
    /\ UNCHANGED <<urls, input_file, outscope_file, input_items, out_of_scope,
                   removed_domains, output_file, run, first_in_scope,
                   decode_failed>>

\* The filter returns (line 51 or 111) and main saves its result: lines
\* 187 and 116-118.
SaveToFile ==
    /\ pc = "filter"
    /\ todo = {}
    /\ output_file' = sorted(in_scope)
    /\ pc' = "done"
    /\ UNCHANGED <<urls, input_file, outscope_file, input_items, out_of_scope,
                   todo, in_scope, removed_domains, removed_domain_info, run,
                   first_in_scope, decode_failed>>

\* The filter applied again, to the in_scope set it returned, with the same
\* out-of-scope set.
FilterAgain ==
    /\ pc = "done"
    /\ run = 1
    /\ run' = 2
    /\ first_in_scope' = in_scope
    /\ input_items' = in_scope
    /\ todo' = in_scope
    /\ in_scope' = {}
    /\ removed_domains' = <<>>
    /\ removed_domain_info' = NoInfo
    /\ pc' = "filter"
    /\ UNCHANGED <<urls, input_file, outscope_file, out_of_scope, output_file,
                   decode_failed>>

Next ==
    \/ LoadFiles
    \/ FilterSubdomainsStep
    \/ FilterUrlsStep
    \/ SaveToFile
    \/ FilterAgain

Spec == Init /\ [][Next]_vars

-----------------------------------------------------------------------------
(* Input files drawn line by line: any order, repeated lines, blank lines *)
(* and white space around the items.                                      *)

b_c == <<"b", ".", "c">>
a_c == <<"a", ".", "c">>
a_c_padded == <<" ", "a", ".", "c", "\t">>
star_c == <<"*", ".", "c">>
blank == <<" ">>
url_b_c == <<"/", "/", "b", ".", "c", "/">>
url_a_c == <<"/", "/", "a", ".", "c", "/">>
url_a_c_padded == <<"\t", "/", "/", "a", ".", "c", "/", " ">>
url_B_c == <<"/", "/", "B", ".", "c", "/">>

LinePool(u) ==
    IF u THEN {url_b_c, url_a_c, url_a_c_padded, url_B_c, blank, <<>>}
    ELSE {b_c, a_c, a_c_padded, star_c, blank, <<>>}

OutscopePool(u) == IF u THEN {{}, {b_c}} ELSE {{}, {b_c}, {star_c}}

\* the sequences over P of at most n elements
RECURSIVE SeqsUpTo(_, _)
SeqsUpTo(P, n) ==
    IF n = 0 THEN {<<>>}
    ELSE SeqsUpTo(P, n - 1) \cup
         {Append(q, x) : q \in {r \in SeqsUpTo(P, n - 1) : Len(r) = n - 1},
                         x \in P}

\* a file with or without the "\n" that ends its last line
WithoutLastNewline(bytes) ==
    IF bytes = <<>> THEN bytes ELSE SubSeq(bytes, 1, Len(bytes) - 1)

FileInit ==
    \E u \in BOOLEAN :
      \E lines \in SeqsUpTo(LinePool(u), MaxLines) :
        \E O \in OutscopePool(u) :
          \E infile \in {FileOfLines(lines),
                         WithoutLastNewline(FileOfLines(lines))} :
              Start(u, infile, FileOfLines(sorted(O)))

FileSpec == FileInit /\ [][Next]_vars

-----------------------------------------------------------------------------
(* load_file alone, on input files drawn byte by byte. *)

BytePool == {"a", " ", "\n", "xC3", "xA9", "xFF"}

LoadInit ==
    \E infile \in SeqsUpTo(BytePool, MaxBytes) : Start(FALSE, infile, <<>>)

LoadNext == LoadFiles

LoadSpec == LoadInit /\ [][LoadNext]_vars


-----------------------------------------------------------------------------
(* Properties of subdomain mode. *)

\* the items the loop of the filter has visited
Visited == input_items \ todo

\* the subdomains the removal records name
RemovedSubdomains ==
    {removed_domains[i][1] : i \in 1..Len(removed_domains)}

\* s.endswith(suffix)
EndsWith(s, suffix) ==
    /\ Len(s) >= Len(suffix)
    /\ SubSeq(s, Len(s) - Len(suffix) + 1, Len(s)) = suffix

dot_example_com ==
    <<".", "e", "x", "a", "m", "p", "l", "e", ".", "c", "o", "m">>

\* C1: in subdomain mode the in-scope set and the subdomains of the removal
\* records are disjoint, together they are the items visited (all of the
\* input once the filter returns), and there is one record per removed
\* subdomain: |in_scope| + |removed| = |visited|.
C1_Partition ==
    (~urls /\ pc \in {"filter", "done"}) =>
        /\ in_scope \cap RemovedSubdomains = {}
        /\ in_scope \cup RemovedSubdomains = Visited
        /\ Cardinality(in_scope) + Len(removed_domains) = Cardinality(Visited)
        /\ pc = "done" => Visited = input_items

C1_Witness ==
    /\ ~urls /\ pc = "done" /\ run = 1
    /\ in_scope # {}
    /\ Len(removed_domains) >= 2
    /\ \E i \in 1..Len(removed_domains) : removed_domains[i][2] = "exact match"

\* C2 as claimed: every input item equal to an entry of the out-of-scope set
\* is removed with reason "exact match" and itself as the pattern, whatever
\* characters it contains.
C2_Original ==
    (~urls /\ pc = "done" /\ run = 1) =>
        \A s \in input_items :
            s \in out_of_scope =>
                /\ s \notin in_scope
                /\ \E i \in 1..Len(removed_domains) :
                       removed_domains[i] = <<s, "exact match", s>>

\* C2, amended: every input item that contains no "*" and is equal to an
\* entry of the out-of-scope set is removed with reason "exact match" and
\* itself as the pattern, also when a wildcard entry matches it too; no
\* other record names it.
C2_ExactPrecedence ==
    (~urls /\ pc = "done" /\ run = 1) =>
        \A s \in input_items :
            (s \in out_of_scope /\ ~Contains(s, "*")) =>
                /\ s \notin in_scope
                /\ \E i \in 1..Len(removed_domains) :
                       removed_domains[i] = <<s, "exact match", s>>
                /\ \A i \in 1..Len(removed_domains) :
                       removed_domains[i][1] = s =>
                           removed_domains[i] = <<s, "exact match", s>>

C2_Witness ==
    /\ ~urls /\ pc = "done" /\ run = 1
    /\ \E s \in input_items :
         /\ s \in out_of_scope /\ ~Contains(s, "*")
         /\ \E p \in out_of_scope : Contains(p, "*") /\ fnmatch(s, p)
         /\ \E i \in 1..Len(removed_domains) :
                removed_domains[i] = <<s, "exact match", s>>

\* C7: with the out-of-scope set {"*.example.com"} an item is removed, with
\* reason "wildcard match" and pattern "*.example.com", exactly when it ends
\* with ".example.com": "api.example.com" is removed, "example.com" and
\* "notexample.com" are kept.  For every out-of-scope set, the pattern of a
\* "wildcard match" record is an entry of the set that contains "*" and
\* matches the subdomain, and no wildcard entry matches an item that is kept.
C7_Wildcard ==
    (~urls /\ pc = "done" /\ run = 1) =>
        /\ out_of_scope = {star_example_com} =>
             /\ \A s \in input_items :
                  /\ s \notin in_scope <=> EndsWith(s, dot_example_com)
                  /\ EndsWith(s, dot_example_com) <=>
                         \E i \in 1..Len(removed_domains) :
                             removed_domains[i] =
                                 <<s, "wildcard match", star_example_com>>
             /\ api_example_com \notin in_scope
             /\ example_com \in input_items => example_com \in in_scope
             /\ notexample_com \in input_items => notexample_com \in in_scope
        /\ \A i \in 1..Len(removed_domains) :
             removed_domains[i][2] = "wildcard match" =>
                 /\ removed_domains[i][3] \in out_of_scope
                 /\ Contains(removed_domains[i][3], "*")
                 /\ fnmatch(removed_domains[i][1], removed_domains[i][3])
        /\ \A s \in in_scope : \A p \in out_of_scope :
             Contains(p, "*") => ~fnmatch(s, p)

C7_Witness ==
    /\ ~urls /\ pc = "done" /\ run = 1
    /\ out_of_scope = {star_example_com}
    /\ input_items = {api_example_com, example_com, notexample_com}
    /\ in_scope = {example_com, notexample_com}

-----------------------------------------------------------------------------
(* Properties of URL mode. *)

\* urlparse(u).hostname is a non-empty string
HasHostname(u) == ~UrlparseRaises(u) /\ Hostname(u) # <<>>

\* u matches an entry of the full-URL buckets, or of the domain buckets
MatchesUrlEntry(u, oos) ==
    \/ Lower(u) \in url_exact(oos)
    \/ \E p \in url_wildcards(oos) : fnmatch(Lower(u), p)

MatchesDomainEntry(u, oos) ==
    \/ Hostname(u) \in domain_exact(oos)
    \/ \E p \in domain_wildcards(oos) : fnmatch(Hostname(u), p)

UrlLevel == {"exact URL match", "wildcard URL match"}

\* the input URLs C3 is about: a hostname, a full-URL wildcard entry that
\* matches the lower-cased URL, and a domain entry that matches the hostname
MatchesBoth(u, oos) ==
    /\ HasHostname(u)
    /\ \E p \in url_wildcards(oos) : fnmatch(Lower(u), p)
    /\ MatchesDomainEntry(u, oos)

\* C3 as claimed: after the run, the record under the hostname of an input
\* URL that matches a full-URL wildcard entry and a domain entry carries a
\* URL-level reason, whatever the other URLs under that hostname.
C3_Original ==
    (urls /\ pc = "done" /\ run = 1) =>
        \A u \in input_items :
            MatchesBoth(u, out_of_scope) =>
                /\ Hostname(u) \in DOMAIN removed_domain_info
                /\ removed_domain_info[Hostname(u)][2] \in UrlLevel

\* C3, amended: after the run, such a URL is not in scope and is counted
\* under its hostname, and the record carries a URL-level reason unless the
\* input holds another URL under the same hostname that matches a domain
\* entry and no full-URL entry (whose reason the record keeps when it was
\* removed first).
C3_UrlPrecedence ==
    (urls /\ pc = "done" /\ run = 1) =>
        \A u \in input_items :
            MatchesBoth(u, out_of_scope) =>
                /\ u \notin in_scope
                /\ Hostname(u) \in DOMAIN removed_domain_info
                /\ \/ removed_domain_info[Hostname(u)][2] \in UrlLevel
                   \/ \E v \in input_items \ {u} :
                        /\ HasHostname(v)
                        /\ Hostname(v) = Hostname(u)
                        /\ MatchesDomainEntry(v, out_of_scope)
                        /\ ~MatchesUrlEntry(v, out_of_scope)

C3_Witness ==
    /\ urls /\ pc = "done" /\ run = 1
    /\ \E u \in input_items :
         /\ MatchesBoth(u, out_of_scope)
         /\ removed_domain_info[Hostname(u)] =
                <<1, "wildcard URL match", url_a_xstar>>

Justified(u, reason, pattern, oos) ==
    CASE reason = "exact URL match" ->
             pattern = Lower(u) /\ pattern \in url_exact(oos)
      [] reason = "wildcard URL match" ->
             pattern \in url_wildcards(oos) /\ fnmatch(Lower(u), pattern)
      [] reason = "exact domain match" ->
             pattern = Hostname(u) /\ pattern \in domain_exact(oos)
      [] reason = "wildcard domain match" ->
             pattern \in domain_wildcards(oos) /\ fnmatch(Hostname(u), pattern)
      [] OTHER -> FALSE

\* C5: during filter_urls a record that exists keeps its reason and pattern
\* and its hostname; a step that removes a URL adds exactly 1 to the count
\* of its hostname, whatever rule removed it, and leaves the other records
\* alone; a record is created with count 1 and the reason and pattern of
\* the rule that removed the URL creating it.
C5_FirstMatchWins ==
    [][(urls /\ pc = "filter") =>
          /\ \A h \in DOMAIN removed_domain_info :
               /\ h \in DOMAIN removed_domain_info'
               /\ removed_domain_info'[h][2] = removed_domain_info[h][2]
               /\ removed_domain_info'[h][3] = removed_domain_info[h][3]
               /\ removed_domain_info'[h][1] =
                      removed_domain_info[h][1] +
                      Cardinality({u \in todo \ todo' :
                                      /\ HasHostname(u)
                                      /\ Hostname(u) = h
                                      /\ u \notin in_scope'})
          /\ \A h \in DOMAIN removed_domain_info' \ DOMAIN removed_domain_info :
               \E u \in todo \ todo' :
                   /\ HasHostname(u) /\ Hostname(u) = h
                   /\ u \notin in_scope'
                   /\ removed_domain_info'[h][1] = 1
                   /\ Justified(u, removed_domain_info'[h][2],
                                removed_domain_info'[h][3], out_of_scope)
          /\ \A u \in todo \ todo' :
               (HasHostname(u) /\ u \notin in_scope') =>
                   Hostname(u) \in DOMAIN removed_domain_info'
      ]_vars

\* a record counts a URL that a rule other than the recorded one removed
C5_Witness ==
    /\ urls /\ run = 1
    /\ \E h \in DOMAIN removed_domain_info :
         /\ removed_domain_info[h][1] >= 2
         /\ removed_domain_info[h][2] = "exact domain match"
         /\ \E u \in Visited :
              /\ HasHostname(u) /\ Hostname(u) = h
              /\ MatchesUrlEntry(u, out_of_scope)

\* C9: an input URL equal, letter case ignored, to an exact full-URL entry of
\* the out-of-scope set is removed as an exact URL match: it is not in
\* scope, and the lower-cased URL is in the url_exact bucket.
C9_CaseInsensitiveExactUrl ==
    (urls /\ pc = "done" /\ run = 1) =>
        \A u \in input_items : \A e \in out_of_scope :
            (/\ HasHostname(u)
             /\ IsUrlPattern(e) /\ ~Contains(e, "*")
             /\ Lower(u) = Lower(e)) =>
                /\ u \notin in_scope
                /\ Lower(u) \in url_exact(out_of_scope)

-----------------------------------------------------------------------------
(* Properties of both modes. *)

\* C6: the filter applied to the in-scope set it returned, with the same
\* out-of-scope set, returns that set again and removes nothing; in URL mode
\* it drops nothing and urlparse raises on none of the items.
C6_Idempotent ==
    /\ (pc = "done" /\ run = 2) =>
          /\ in_scope = first_in_scope
          /\ removed_domains = <<>>
          /\ DOMAIN removed_domain_info = {}
    /\ run = 2 => pc # "crashed"

C6_Witness ==
    /\ pc = "done" /\ run = 2 /\ urls
    /\ in_scope # {}
    /\ first_in_scope # load_file(input_file)
    /\ out_of_scope # {}

-----------------------------------------------------------------------------
(* Properties of the files. *)

\* the lines of a text: its longest runs of characters other than "\n"
RawLines(text) ==
    {SubSeq(text, p[1], p[2]) :
        p \in {q \in (1..(Len(text) + 1)) \X (0..Len(text)) :
                  /\ q[1] <= q[2] + 1
                  /\ q[1] = 1 \/ text[q[1] - 1] = "\n"
                  /\ q[2] = Len(text) \/ text[q[2] + 1] = "\n"
                  /\ \A k \in q[1]..q[2] : text[k] # "\n"}}

\* the trimmed lines of a text that are not empty
TrimmedLines(text) == {Strip(l) : l \in RawLines(text)} \ {<<>>}

\* the trimmed lines of the input file that the out-of-scope file leaves
Surviving ==
    IF urls
    THEN {t \in TrimmedLines(input_file) :
             /\ HasHostname(t)
             /\ ~MatchesUrlEntry(t, TrimmedLines(outscope_file))
             /\ ~MatchesDomainEntry(t, TrimmedLines(outscope_file))}
    ELSE {t \in TrimmedLines(input_file) :
             /\ t \notin exact_matches(TrimmedLines(outscope_file))
             /\ \A p \in wildcard_patterns(TrimmedLines(outscope_file)) :
                    ~fnmatch(t, p)}

\* C8: whatever the order of the lines of the input file, its repeated and
\* blank lines and the white space around its items, the lines of the
\* output file are strictly ascending in string order (so none is written
\* twice) and are the trimmed lines of the input that survive the filter.
C8_SortedOutput ==
    pc = "done" =>
        /\ \A i \in 1..Len(output_file) : \A j \in 1..Len(output_file) :
               i < j => StrLess(output_file[i], output_file[j])
        /\ run = 1 =>
               {output_file[i] : i \in 1..Len(output_file)} = Surviving

C8_Witness ==
    /\ pc = "done" /\ run = 1 /\ ~urls
    /\ input_file = WithoutLastNewline(FileOfLines(<<b_c, a_c_padded, a_c>>))
    /\ output_file = <<a_c, b_c>>

\* C10: when the UTF-8 pass raises, load_file returns the trimmed non-empty
\* lines of the latin-1 pass over the whole file and nothing else.
C10_FallbackRestarts ==
    (pc = "filter" /\ decode_failed) =>
        input_items = TrimmedLines(DecodeLatin1(input_file))

=============================================================================
